---- MODULE Spec2Model ----
(***************************************************************************)
(* Model of the tool-server connection manager (MCPService,                *)
(* server/src/services/mcpService.ts): the provider table, the connection  *)
(* table, the child processes / sockets it opens, the requests it sends    *)
(* and the response handlers and timers it registers for them.             *)
(***************************************************************************)
EXTENDS Integers, Sequences, FiniteSets, TLC

(***************************************************************************)
(* Bounds of the model.                                                    *)
(***************************************************************************)
MaxTransports == 2      \* child processes / sockets created in one run
MaxCalls == 2           \* sendMessage invocations in one run
FsTransports == 1       \* the same bounds for the runs of SpecFs
FsCalls == 3
FsFrames == 2           \* frames the provider writes in one run
FsInflight == 1         \* frames written and not yet delivered
FsTicks == 2            \* clock advances in one run
WsTransports == 1       \* the same bounds for the runs of SpecWs
WsCalls == 2
WsFrames == 2
WsInflight == 1
WsTicks == 2
TimeTransports == 2     \* the same bounds for the runs of SpecTime
TimeCalls == 2
TimeTicks == 2
AutoTransports == 2
AutoRuns == 2
AutoCalls == 2
AutoTicks == 2
AliasTransports == 2    \* the same bounds for the runs of SpecAlias
AliasRuns == 2
AliasCalls == 2
AliasTicks == 2
ReloadTransports == 1   \* the same bounds for the runs of SpecReload
ReloadCalls == 3
ReloadFrames == 2
ReloadInflight == 1
ReloadUpdates == 1
MaxBytes == 4
CfgTransports == 2
CfgCalls == 2
CfgUpdates == 1
ClockStep == 60000      \* milliseconds per clock advance
StartTime == 1000000    \* Date.now() when the service is constructed

(***************************************************************************)
(* Program constants.                                                      *)
(***************************************************************************)
timeoutMs == 120000
autoStartDelayMs == 1000

(***************************************************************************)
(* The configuration document the service was constructed from:            *)
(*   fs    local process with a command, no declared tools                 *)
(*   ws    socket provider with one declared tool                          *)
(*   demo  local process without a command (demo server), declared tool    *)
(*   sse   provider of the unimplemented transport kind                    *)
(*   bad   socket provider without a url                                   *)
(*   http  provider of a transport kind the service does not know          *)
(*   twin  local process without a command, with the display name of fs    *)
(*   off   local process with a command, disabled                          *)
(*   alias local process without a command, whose display name is the id   *)
(*         of fs                                                           *)
(* A url is "" when the document gives none.                               *)
(***************************************************************************)
UnknownId == "nope"

WsUrl == "ws://host"

ConfigDocument ==
    [fs   |-> [name |-> "FS",   transport |-> "stdio",     command |-> TRUE,
               url |-> "", tools |-> <<>>,          disabled |-> FALSE],
     ws   |-> [name |-> "WS",   transport |-> "websocket", command |-> FALSE,
               url |-> WsUrl, tools |-> <<"query">>,   disabled |-> FALSE],
     demo |-> [name |-> "Demo", transport |-> "stdio",     command |-> FALSE,
               url |-> "", tools |-> <<"search_web">>, disabled |-> FALSE],
     sse  |-> [name |-> "SSE",  transport |-> "sse",       command |-> FALSE,
               url |-> "", tools |-> <<>>,          disabled |-> FALSE],
     bad  |-> [name |-> "Bad",  transport |-> "websocket", command |-> FALSE,
               url |-> "", tools |-> <<"query">>,   disabled |-> FALSE],
     http |-> [name |-> "HTTP", transport |-> "http",      command |-> FALSE,
               url |-> "", tools |-> <<"query">>,   disabled |-> FALSE],
     twin |-> [name |-> "FS",   transport |-> "stdio",     command |-> FALSE,
               url |-> "", tools |-> <<"search_web">>, disabled |-> FALSE],
     off  |-> [name |-> "Off",  transport |-> "stdio",     command |-> TRUE,
               url |-> "", tools |-> <<>>,          disabled |-> TRUE],
     alias |-> [name |-> "fs",  transport |-> "stdio",     command |-> FALSE,
               url |-> "", tools |-> <<"search_web">>, disabled |-> FALSE]]

\* the order of the providers in the document, which is the order of this.servers
ServerOrder == <<"alias", "fs", "ws", "demo", "sse", "bad", "http", "twin", "off">>

\* the part of the configuration document that defines the providers ids
Select(ids) == [id \in ids |-> ConfigDocument[id]]

\* the documents update_configuration is given: one that keeps fs and drops
\* the other providers, one that defines no provider
Documents == [fsonly |-> Select({"fs"}), empty |-> Select({})]

\* `${id}_tool`
PlaceholderTool(id) == id \o "_tool"

\* The tool list a provider answers tools/list with.
ProviderTools(id) == IF id = "fs" THEN <<"read_file">> ELSE <<"query">>

ToolNames == {"fs_tool", "read_file", "query"}

\* obj names the MCPServer object: the handlers of a transport keep the object
\* their connect call was given, not the entry of the table
parseServerConfig(id, config) ==
    [id        |-> id,
     obj       |-> 0,
     name      |-> config.name,
     url       |-> IF config.url = "" THEN "stdio://" \o id ELSE config.url,
     transport |-> config.transport,
     command   |-> config.command,
     status    |-> "disconnected",
     tools     |-> IF Len(config.tools) = 0 /\ config.command
                   THEN <<PlaceholderTool(id)>> ELSE config.tools,
     disabled  |-> config.disabled]

\* MCPService.initializeExampleServers
ExampleServers ==
    [id \in {"filesystem", "web-search"} |->
        [id        |-> id,
         obj       |-> 0,
         name      |-> IF id = "filesystem" THEN "File System Tools" ELSE "Web Search Tools",
         url       |-> "stdio://" \o id,
         transport |-> "stdio",
         command   |-> FALSE,
         status    |-> "disconnected",
         tools     |-> IF id = "filesystem" THEN <<"read_file", "write_file">>
                       ELSE <<"search_web">>,
         disabled  |-> FALSE]]

\* the entries MCPService.loadServersFromConfig sets in this.servers
loadServersFromConfig(config) ==
    IF DOMAIN config = {}
    THEN ExampleServers
    ELSE [id \in DOMAIN config |-> parseServerConfig(id, config[id])]

(***************************************************************************)
(* Bytes on the wire.  A stream is a sequence of tokens: a newline, a      *)
(* blank, a piece of text that is not JSON, or a complete JSON-RPC         *)
(* response {id, result | error}.                                          *)
(***************************************************************************)
NL == [k |-> "nl", id |-> 0, body |-> "-"]
SP == [k |-> "sp", id |-> 0, body |-> "-"]
Junk == [k |-> "junk", id |-> 0, body |-> "-"]
NoTok == [k |-> "none", id |-> 0, body |-> "-"]
Resp(i, b) == [k |-> "resp", id |-> i, body |-> b]

\* response bodies: a result (which carries a tools array), an error object
Bodies == {"tools", "error"}
\* the id of a frame that answers no request (a notification of the provider)
StrayId == 0

IsSpace(tok) == tok.k \in {"nl", "sp"}

RECURSIVE SplitNL(_)
\* String.prototype.split('\n')
SplitNL(s) ==
    IF \E i \in 1..Len(s) : s[i].k = "nl"
    THEN LET i == CHOOSE i \in 1..Len(s) :
                    s[i].k = "nl" /\ \A j \in 1..(i - 1) : s[j].k # "nl"
         IN  <<SubSeq(s, 1, i - 1)>> \o SplitNL(SubSeq(s, i + 1, Len(s)))
    ELSE <<s>>

RECURSIVE TrimLeft(_)
TrimLeft(s) == IF Len(s) > 0 /\ IsSpace(s[1]) THEN TrimLeft(Tail(s)) ELSE s

RECURSIVE TrimRight(_)
TrimRight(s) ==
    IF Len(s) > 0 /\ IsSpace(s[Len(s)]) THEN TrimRight(SubSeq(s, 1, Len(s) - 1)) ELSE s

\* String.prototype.trim()
Trim(s) == TrimRight(TrimLeft(s))

\* JSON.parse: white space around one value is accepted, anything else throws
JSONParse(s) ==
    LET t == Trim(s)
    IN  IF Len(t) = 1 /\ t[1].k = "resp"
        THEN [ok |-> TRUE, v |-> t[1]]
        ELSE [ok |-> FALSE, v |-> NoTok]

RECURSIVE ScanLines(_, _, _, _)
\* the for loop of the stdio responseHandler over the complete lines
ScanLines(lines, i, processedLength, id) ==
    IF i > Len(lines) - 1
    THEN [hit |-> FALSE, resp |-> NoTok, processedLength |-> processedLength]
    ELSE LET line == Trim(lines[i])
             p == processedLength + Len(lines[i]) + 1
             r == JSONParse(line)
         IN  IF Len(line) = 0 THEN ScanLines(lines, i + 1, p, id)
             ELSE IF r.ok /\ r.v.id = id
                  THEN [hit |-> TRUE, resp |-> r.v, processedLength |-> p]
                  ELSE ScanLines(lines, i + 1, p, id)

\* the bytes of a character of two bytes, and the characters they decode to
Lead == [k |-> "lead", id |-> 0, body |-> "-"]
Cont == [k |-> "cont", id |-> 0, body |-> "-"]
Wide == [k |-> "wide", id |-> 0, body |-> "-"]
Repl == [k |-> "repl", id |-> 0, body |-> "-"]

RECURSIVE BufferToString(_)
\* data.toString(): utf-8 decoding of one chunk; a byte sequence that is not
\* complete in the chunk decodes to U+FFFD
BufferToString(data) ==
    IF data = <<>> THEN <<>>
    ELSE IF Head(data) = Lead /\ Len(data) > 1 /\ data[2] = Cont
         THEN <<Wide>> \o BufferToString(SubSeq(data, 3, Len(data)))
         ELSE IF Head(data) \in {Lead, Cont}
              THEN <<Repl>> \o BufferToString(Tail(data))
              ELSE <<Head(data)>> \o BufferToString(Tail(data))

RECURSIVE ParsedLines(_, _)
\* the lines the loop of the stdio responseHandler hands to JSON.parse when
\* none of them carries the id of the request
ParsedLines(lines, i) ==
    IF i > Len(lines) - 1 THEN <<>>
    ELSE LET line == Trim(lines[i])
         IN  (IF Len(line) = 0 THEN <<>> ELSE <<line>>) \o ParsedLines(lines, i + 1)

\* responseHandler of a request sent to a child process
StdioResponseHandler(responseBuffer, data, id) ==
    LET b == responseBuffer \o BufferToString(data)
        r == ScanLines(SplitNL(b), 1, 0, id)
    IN  IF r.hit
        THEN [buf |-> b, hit |-> TRUE, resp |-> r.resp]
        ELSE [buf |-> IF r.processedLength > 0
                      THEN SubSeq(b, r.processedLength + 1, Len(b)) ELSE b,
              hit |-> FALSE, resp |-> NoTok]

\* one 'data' event for a stdio responseHandler whose request no line answers:
\* c holds its buffer and the lines it handed to JSON.parse so far
feed(c, data) ==
    [buf   |-> StdioResponseHandler(c.buf, data, StrayId).buf,
     lines |-> c.lines \o ParsedLines(SplitNL(c.buf \o BufferToString(data)), 1)]

\* responseHandler of a request sent to a socket
WsResponseHandler(wsResponseBuffer, data, id) ==
    LET b == wsResponseBuffer \o data
        r == JSONParse(b)
    IN  IF r.ok /\ r.v.id = id
        THEN [buf |-> b, hit |-> TRUE, resp |-> r.v]
        ELSE [buf |-> b, hit |-> FALSE, resp |-> NoTok]


(***************************************************************************)
(* State.                                                                  *)
(*   servers      this.servers: provider id -> MCPServer                   *)
(*   connections  this.connections: provider id -> index of the child      *)
(*                process / socket in transports, NoConn when absent       *)
(*   transports   every child process / socket created so far, with the    *)
(*                promise of the connect call that created it              *)
(*   calls        every sendMessage invocation so far: its promise, its    *)
(*                response handler with its buffer, its timer; got and     *)
(*                late record that a frame with its id arrived while its   *)
(*                handler was registered, and after it was rejected         *)
(*   now          Date.now()                                               *)
(*   ret          what the public operation invoked in the last step       *)
(*                returned to its caller (NoRet when the last step was an  *)
(*                event)                                                   *)
(*   settings     the settings file: the activated list and the number of  *)
(*                times the file was written                               *)
(*   autos        the runs of autoStartEnabledServers, each with its       *)
(*                position                                                 *)
(*   codec        one stdio response handler fed with the bytes of a       *)
(*                stream: the bytes to come, its buffer, the lines it      *)
(*                handed to JSON.parse                                     *)
(*   lim          the bounds of the run: transports and calls created,     *)
(*                frames written, frames in flight, clock advances, and    *)
(*                the inputs tried: provider ids, tool names, frames       *)
(***************************************************************************)
VARIABLES servers, connections, transports, calls, now, ret, lim,
          settings, autos, codec

vars == <<servers, connections, transports, calls, now, ret, lim,
          settings, autos, codec>>

NoConn == 0
NoRet == [op |-> "-", srv |-> "-", tool |-> "-", out |-> "-", doc |-> "-"]
Ret(op, srv, tool, out) ==
    [op |-> op, srv |-> srv, tool |-> tool, out |-> out, doc |-> "-"]

Cur == [servers |-> servers, connections |-> connections,
        transports |-> transports, calls |-> calls]

Range(f) == {f[x] : x \in DOMAIN f}

\* a child process (spawn) or a socket (new WebSocket) and the promise of its connect call
NewTransport(srv, kind, obj) ==
    [srv |-> srv, obj |-> obj, kind |-> kind, st |-> "starting", killed |-> FALSE,
     result |-> "pending", sent |-> <<>>, out |-> <<>>, nout |-> 0,
     init |-> "none", rbuf |-> <<>>]

\* the promise, handler and timer one sendMessage invocation creates
NewCall(srv, conn, id, method, run, t0) ==
    [srv |-> srv, conn |-> conn, id |-> id, method |-> method, run |-> run,
     buf |-> <<>>, listening |-> TRUE, timer |-> "armed", start |-> t0,
     state |-> "pending", resp |-> NoTok, err |-> "-",
     outcome |-> "-", value |-> "-", got |-> FALSE, late |-> FALSE]

\* the MCPServer object the handlers of transport t hold is the entry of the table
Held(S, t) == S.servers[S.transports[t].srv].obj = S.transports[t].obj

\* MCPService.sendMessage up to the return of its promise
sendMessage(S, serverId, id, method, run, t0) ==
    LET connection == S.connections[serverId]
    IN  IF connection = NoConn
        THEN [S |-> S, thrown |-> TRUE]
        ELSE [S |-> [S EXCEPT
                       !.transports[connection].sent =
                           Append(@, [method |-> method, id |-> id]),
                       !.calls = Append(@, NewCall(serverId, connection, id,
                                                   method, run, t0))],
              thrown |-> FALSE]

\* MCPService.sendNotification
sendNotification(S, serverId, method) ==
    LET connection == S.connections[serverId]
    IN  IF connection = NoConn THEN S
        ELSE [S EXCEPT !.transports[connection].sent =
                           Append(@, [method |-> method, id |-> 0])]

\* mutant: the catch of the spawn handler marks the session as failed
InitFail_MarksError(S, run) ==
    [S EXCEPT !.transports[run].init = "failed",
              !.servers[S.transports[run].srv].status =
                  IF Held(S, run) THEN "error" ELSE @]

\* the catch of the spawn handler: the failure of the initialize sequence is logged
InitFail(S, run) == [S EXCEPT !.transports[run].init = "failed"]

\* the then of the spawn handler
InitDone(S, run) == [S EXCEPT !.transports[run].init = "ok"]

\* mutant: the tools/list request is sent before the initialized notification
AfterInitialize_ListsFirst(S, ci, t0) ==
    LET c == S.calls[ci]
        r == sendMessage(S, c.srv, 2, "tools/list", c.run, t0)
    IN  IF r.thrown THEN InitFail(r.S, c.run)
        ELSE sendNotification(r.S, c.srv, "notifications/initialized")

\* initializeServerConnection from the initialize response to the tools/list request
AfterInitialize(S, ci, t0) ==
    LET c == S.calls[ci]
        S1 == sendNotification(S, c.srv, "notifications/initialized")
        r == sendMessage(S1, c.srv, 2, "tools/list", c.run, t0)
    IN  IF r.thrown THEN InitFail(r.S, c.run) ELSE r.S

\* mutant: the discovered tools are added to the tools the session has
AfterToolsList_Merges(S, ci, t0) ==
    LET c == S.calls[ci]
        S1 == IF c.resp.body = "tools"
              THEN [S EXCEPT !.servers[c.srv].tools =
                                 IF Held(S, c.run) THEN @ \o ProviderTools(c.srv) ELSE @]
              ELSE S
        r == sendMessage(S1, c.srv, 3, "resources/list", c.run, t0)
    IN  IF r.thrown THEN InitDone(r.S, c.run) ELSE r.S

\* initializeServerConnection from the tools/list response to the resources/list request
AfterToolsList(S, ci, t0) ==
    LET c == S.calls[ci]
        S1 == IF c.resp.body = "tools"
              THEN [S EXCEPT !.servers[c.srv].tools =
                                 IF Held(S, c.run) THEN ProviderTools(c.srv) ELSE @]
              ELSE S
        r == sendMessage(S1, c.srv, 3, "resources/list", c.run, t0)
    IN  IF r.thrown THEN InitDone(r.S, c.run) ELSE r.S

\* executeTool after sendMessage resolved: return response.result
ExecuteToolReturn(S, ci) ==
    [S EXCEPT !.calls[ci].outcome = "returned",
              !.calls[ci].value = IF S.calls[ci].resp.body = "error"
                                  THEN "undefined" ELSE "result"]

\* executeTool after sendMessage rejected: rethrow
ExecuteToolThrow(S, ci) == [S EXCEPT !.calls[ci].outcome = "threw"]

\* the code awaiting the promise of call ci, run when the promise resolves
OnResolve(S, ci, t0) ==
    LET m == S.calls[ci].method
    IN  CASE m = "tools/call"     -> ExecuteToolReturn(S, ci)
          [] m = "initialize"     -> AfterInitialize(S, ci, t0)
          [] m = "tools/list"     -> AfterToolsList(S, ci, t0)
          [] m = "resources/list" -> InitDone(S, S.calls[ci].run)

\* the code awaiting the promise of call ci, run when the promise rejects
OnReject(S, ci) ==
    LET m == S.calls[ci].method
    IN  CASE m = "tools/call"     -> ExecuteToolThrow(S, ci)
          [] m = "initialize"     -> InitFail(S, S.calls[ci].run)
          [] m = "tools/list"     -> InitFail(S, S.calls[ci].run)
          [] m = "resources/list" -> InitDone(S, S.calls[ci].run)

RECURSIVE RunContinuations(_, _, _)
RunContinuations(S, hits, t0) ==
    IF hits = <<>> THEN S
    ELSE RunContinuations(OnResolve(S, Head(hits), t0), Tail(hits), t0)

\* the ids of the complete frames in data, as the stream of transport t carries them
FrameIds(tr, data) ==
    LET lines == SplitNL(tr.rbuf \o data)
    IN  {JSONParse(lines[i]).v.id :
            i \in {j \in 1..(Len(lines) - 1) : JSONParse(lines[j]).ok}}

\* one 'data' / 'message' event of transport t: every registered handler runs on
\* the chunk, then the awaiting code of the calls that were resolved
Deliver(S, t, data, t0) ==
    LET tr == S.transports[t]
        G == FrameIds(tr, data)
        lines == SplitNL(tr.rbuf \o data)
        Handle(c) ==
            LET h == IF tr.kind = "stdio"
                     THEN StdioResponseHandler(c.buf, data, c.id)
                     ELSE WsResponseHandler(c.buf, data, c.id)
            IN  [c EXCEPT !.buf = h.buf,
                          !.listening = ~h.hit,
                          !.state = IF h.hit THEN "resolved" ELSE @,
                          !.resp = h.resp,
                          !.got = @ \/ c.id \in G]
        handled == [i \in 1..Len(S.calls) |->
                      IF S.calls[i].conn = t /\ S.calls[i].listening
                      THEN Handle(S.calls[i])
                      ELSE [S.calls[i] EXCEPT
                              !.late = @ \/ (S.calls[i].conn = t /\ S.calls[i].id \in G
                                                /\ S.calls[i].state = "rejected")]]
        calls1 == SubSeq(handled, 1, Len(S.calls))
        hits == SelectSeq([i \in 1..Len(S.calls) |-> i],
                          LAMBDA i : S.calls[i].listening /\ ~calls1[i].listening)
        S1 == [S EXCEPT !.calls = calls1,
                        !.transports[t].rbuf = lines[Len(lines)]]
    IN  RunContinuations(S1, hits, t0)

\* mutant: the timer rejects the call whether or not it was resolved
TimeoutFired_Overrides(S, ci) ==
    OnReject([S EXCEPT !.calls[ci].timer = "fired",
                       !.calls[ci].listening = FALSE,
                       !.calls[ci].state = "rejected",
                       !.calls[ci].err = "timeout"], ci)

\* mutant: the timer rejects the call and leaves its response handler registered
TimeoutFired_KeepsHandler(S, ci) ==
    LET c == S.calls[ci]
        S1 == [S EXCEPT !.calls[ci].timer = "fired",
                        !.calls[ci].state = IF c.state = "pending" THEN "rejected" ELSE @,
                        !.calls[ci].err = IF c.state = "pending" THEN "timeout" ELSE @]
    IN  IF c.state = "pending" THEN OnReject(S1, ci) ELSE S1

\* the setTimeout callback of call ci
TimeoutFired(S, ci) ==
    LET c == S.calls[ci]
        S1 == [S EXCEPT !.calls[ci].timer = "fired",
                        !.calls[ci].listening = FALSE,
                        !.calls[ci].state = IF c.state = "pending" THEN "rejected" ELSE @,
                        !.calls[ci].err = IF c.state = "pending" THEN "timeout" ELSE @]
    IN  IF c.state = "pending" THEN OnReject(S1, ci) ELSE S1


(***************************************************************************)
(* The public operations and the event handlers, as functions of the       *)
(* service's state.                                                        *)
(***************************************************************************)

\* mutant: the status is set when the process is started, not when it was spawned
connectStdioServer_Eager(S, id) ==
    IF ~S.servers[id].command
    THEN [S |-> [S EXCEPT !.servers[id].status = "connected"], out |-> "true"]
    ELSE [S |-> [S EXCEPT !.transports =
                              Append(@, NewTransport(id, "stdio", S.servers[id].obj)),
                          !.servers[id].status = "connected"],
          out |-> "pending"]

\* MCPService.connectStdioServer up to the return of its promise
connectStdioServer(S, id) ==
    IF ~S.servers[id].command
    THEN [S |-> [S EXCEPT !.servers[id].status = "connected"], out |-> "true"]
    ELSE [S |-> [S EXCEPT !.transports =
                              Append(@, NewTransport(id, "stdio", S.servers[id].obj))],
          out |-> "pending"]

\* MCPService.connectWebSocketServer up to the return of its promise
connectWebSocketServer(S, id) ==
    IF S.servers[id].url # WsUrl
    THEN [S |-> S, out |-> "false"]
    ELSE [S |-> [S EXCEPT !.transports =
                              Append(@, NewTransport(id, "ws", S.servers[id].obj))],
          out |-> "pending"]

\* MCPService.connectSSEServer
connectSSEServer(S, id) == [S |-> S, out |-> "false"]

\* MCPService.connectToServer
connectToServer(S, serverId) ==
    IF serverId \notin DOMAIN S.servers
    THEN [S |-> S, out |-> "throw"]
    ELSE CASE S.servers[serverId].transport = "stdio" -> connectStdioServer(S, serverId)
           [] S.servers[serverId].transport = "websocket" -> connectWebSocketServer(S, serverId)
           [] S.servers[serverId].transport = "sse" -> connectSSEServer(S, serverId)
           [] OTHER -> [S |-> [S EXCEPT !.servers[serverId].status = "error"],
                        out |-> "false"]

\* resolve(v) of the promise of the connect call that created transport t
Resolve(S, t, v) ==
    [S EXCEPT !.transports[t].result = IF @ = "pending" THEN v ELSE @]

\* childProcess.on('spawn')
SpawnHandler(S, t, t0) ==
    LET id == S.transports[t].srv
        S1 == [S EXCEPT !.servers[id].status = IF Held(S, t) THEN "connected" ELSE @,
                        !.connections[id] = t,
                        !.transports[t].st = "up",
                        !.transports[t].init = "running"]
        r == sendMessage(S1, id, 1, "initialize", t, t0)
        S2 == IF r.thrown THEN InitFail(r.S, t) ELSE r.S
    IN  Resolve(S2, t, "true")

\* childProcess.on('error'), ws.on('error')
ErrorHandler(S, t) ==
    LET id == S.transports[t].srv
        S1 == [S EXCEPT !.servers[id].status = IF Held(S, t) THEN "error" ELSE @,
                        !.transports[t].st = "failed"]
    IN  Resolve(S1, t, "false")

\* mutant: the end of one transport clears the whole connection table
ExitHandler_ClearsAll(S, t) ==
    LET id == S.transports[t].srv
    IN  [S EXCEPT !.servers[id].status = IF Held(S, t) THEN "disconnected" ELSE @,
                  !.connections = [x \in DOMAIN S.connections |-> NoConn],
                  !.transports[t].st = "down"]

\* childProcess.on('exit'), ws.on('close')
ExitHandler(S, t) ==
    LET id == S.transports[t].srv
    IN  [S EXCEPT !.servers[id].status = IF Held(S, t) THEN "disconnected" ELSE @,
                  !.connections[id] = NoConn,
                  !.transports[t].st = "down"]

\* ws.on('open')
OpenHandler(S, t) ==
    LET id == S.transports[t].srv
        S1 == [S EXCEPT !.servers[id].status = IF Held(S, t) THEN "connected" ELSE @,
                        !.connections[id] = t,
                        !.transports[t].st = "up"]
    IN  Resolve(S1, t, "true")

\* MCPService.disconnectServer
disconnectServer(S, serverId) ==
    LET connection == IF serverId \in DOMAIN S.connections
                      THEN S.connections[serverId] ELSE NoConn
        S1 == IF connection # NoConn
              THEN [S EXCEPT !.transports[connection].killed = TRUE,
                             !.connections[serverId] = NoConn]
              ELSE S
    IN  IF serverId \in DOMAIN S.servers
        THEN [S1 EXCEPT !.servers[serverId].status = "disconnected"]
        ELSE S1

\* MCPService.updateConfig with a document that parses and a file that is written
updateConfig(S, config) ==
    LET loaded == loadServersFromConfig(config)
        ids == DOMAIN S.servers \cup DOMAIN loaded
    IN  [S EXCEPT
           !.servers = [id \in ids |->
                          IF id \in DOMAIN loaded
                          THEN [loaded[id] EXCEPT
                                  !.obj = IF id \in DOMAIN S.servers
                                          THEN S.servers[id].obj + 1 ELSE 0]
                          ELSE S.servers[id]],
           !.connections = [id \in ids |->
                              IF id \in DOMAIN S.connections
                              THEN S.connections[id] ELSE NoConn]]

\* mutant: the tool is not looked up in the session's tool list
executeTool_NoToolLookup(S, serverId, name, t0) ==
    IF serverId \notin DOMAIN S.servers \/ S.servers[serverId].status # "connected"
    THEN [S |-> S, out |-> "throw_not_connected"]
    ELSE LET r == sendMessage(S, serverId, t0, "tools/call", 0, t0)
         IN  IF r.thrown THEN [S |-> S, out |-> "throw_no_connection"]
             ELSE [S |-> r.S, out |-> "pending"]

\* MCPService.executeTool up to its await
executeTool(S, serverId, name, t0) ==
    IF serverId \notin DOMAIN S.servers \/ S.servers[serverId].status # "connected"
    THEN [S |-> S, out |-> "throw_not_connected"]
    ELSE IF name \notin Range(S.servers[serverId].tools)
    THEN [S |-> S, out |-> "throw_tool_not_found"]
    ELSE LET r == sendMessage(S, serverId, t0, "tools/call", 0, t0)
         IN  IF r.thrown THEN [S |-> S, out |-> "throw_no_connection"]
             ELSE [S |-> r.S, out |-> "pending"]

\* MCPService.getAvailableServers
getAvailableServers(S) == {S.servers[id] : id \in DOMAIN S.servers}

RECURSIVE ToolsOf(_, _)
\* the loop of getAvailableTools over the entries of this.servers
ToolsOf(S, ids) ==
    IF ids = {} THEN <<>>
    ELSE LET id == CHOOSE x \in ids : TRUE
         IN  (IF S.servers[id].status = "connected"
              THEN [i \in 1..Len(S.servers[id].tools) |->
                      [server |-> id, name |-> S.servers[id].tools[i]]]
              ELSE <<>>) \o ToolsOf(S, ids \ {id})

RECURSIVE AllToolsOf(_, _)
AllToolsOf(S, ids) ==
    IF ids = {} THEN <<>>
    ELSE LET id == CHOOSE x \in ids : TRUE
         IN  [i \in 1..Len(S.servers[id].tools) |->
                 [server |-> id, name |-> S.servers[id].tools[i]]]
             \o AllToolsOf(S, ids \ {id})

\* mutant: the tools of every server are returned, whatever its status
getAvailableTools_AnyStatus(S) == AllToolsOf(S, DOMAIN S.servers)

\* MCPService.getAvailableTools: the tool objects, each named with the
\* MCPServer whose array holds it
getAvailableTools(S) == ToolsOf(S, DOMAIN S.servers)

(***************************************************************************)
(* The settings file and the auto-start of the activated providers.        *)
(***************************************************************************)
\* no settings file, and a settings file with an activated list
NoFile == [exists |-> FALSE, activatedMCPServers |-> <<>>]
File(activated) == [exists |-> TRUE, activatedMCPServers |-> activated]

\* SettingsService.saveSettings
saveSettings(F, activated) ==
    [exists |-> TRUE, activatedMCPServers |-> activated, writes |-> F.writes + 1]

\* SettingsService.loadSettings: a missing file is created with the defaults
loadSettings(F) ==
    IF F.exists
    THEN [F |-> F, value |-> F.activatedMCPServers]
    ELSE [F |-> saveSettings(F, <<>>), value |-> <<>>]

\* SettingsService.updateSettings({activatedMCPServers: activated})
updateSettings(F, activated) == saveSettings(loadSettings(F).F, activated)

\* Array.prototype.includes
Includes(list, x) == \E j \in DOMAIN list : list[j] = x

\* mutant: only the id of the provider is looked up in the activated list
shouldAutoStart_ByIdOnly(server, activated) ==
    LET isActivatedById == Includes(activated, server.id)
    IN  [start |-> ~server.disabled /\ isActivatedById, rewrite |-> FALSE,
         updatedServers |-> activated]

\* mutant: the id is added to the activated list and the name is kept
shouldAutoStart_KeepsName(server, activated) ==
    LET isActivatedById == Includes(activated, server.id)
        isActivatedByName == Includes(activated, server.name)
    IN  IF server.disabled
        THEN [start |-> FALSE, rewrite |-> FALSE, updatedServers |-> activated]
        ELSE [start |-> isActivatedById \/ isActivatedByName,
              rewrite |-> isActivatedByName /\ ~isActivatedById,
              updatedServers |-> Append(activated, server.id)]

\* MCPService.shouldAutoStart after loadSettings returned activated: whether the
\* provider is started, and the list written to the settings when it is rewritten
shouldAutoStart(server, activated) ==
    LET isActivatedById == Includes(activated, server.id)
        isActivatedByName == Includes(activated, server.name)
    IN  IF server.disabled
        THEN [start |-> FALSE, rewrite |-> FALSE, updatedServers |-> activated]
        ELSE [start |-> isActivatedById \/ isActivatedByName,
              rewrite |-> isActivatedByName /\ ~isActivatedById,
              updatedServers |->
                  Append(SelectSeq(activated, LAMBDA x : x # server.name), server.id)]

\* one invocation of autoStartEnabledServers: pc is its position, order the
\* entries of this.servers, k the entry being examined, seen the activated
\* list loadSettings returned for it, i the index in serversToStart, t the
\* transport whose connect it awaits, until the end of its delay; tried, back,
\* wrote, alone and began record the connects it started, the time the last
\* one returned, its writes to the settings, whether it began with no other
\* invocation under way and the activated list stored when it began
NewRun(order, alone, began) ==
    [pc |-> "check", order |-> order, k |-> 1, seen |-> <<>>, began |-> began,
     serversToStart |-> <<>>, i |-> 1, t |-> NoConn, until |-> 0,
     tried |-> <<>>, back |-> 0, wrote |-> 0, alone |-> alone]

\* the first loop of autoStartEnabledServers moves to the next entry, or ends
NextCheck(run) ==
    IF run.k < Len(run.order) THEN [run EXCEPT !.pc = "check", !.k = @ + 1]
    ELSE IF run.serversToStart = <<>> THEN [run EXCEPT !.pc = "done"]
    ELSE [run EXCEPT !.pc = "start", !.i = 1]

\* mutant: the next connect follows without a delay
AfterConnect_NoDelay(run, t0) ==
    IF run.i < Len(run.serversToStart)
    THEN [run EXCEPT !.pc = "start", !.i = @ + 1, !.back = t0]
    ELSE [run EXCEPT !.pc = "done", !.back = t0]

\* the second loop of autoStartEnabledServers after connectToServer returned
AfterConnect(run, t0) ==
    IF run.i < Len(run.serversToStart)
    THEN [run EXCEPT !.pc = "delay", !.until = t0 + autoStartDelayMs, !.back = t0]
    ELSE [run EXCEPT !.pc = "done", !.back = t0]

(***************************************************************************)
(* Actions.                                                                *)
(***************************************************************************)
Set(S) ==
    /\ servers' = S.servers
    /\ connections' = S.connections
    /\ transports' = S.transports
    /\ calls' = S.calls

Limits(t, c, f, p, k) ==
    [transports |-> t, calls |-> c, frames |-> f, inflight |-> p, ticks |-> k]

Inputs(ids, tools, bodies, noise) ==
    [ids |-> ids, tools |-> tools, bodies |-> bodies, noise |-> noise]

Merge(a, b) == [x \in DOMAIN a \cup DOMAIN b |-> IF x \in DOMAIN a THEN a[x] ELSE b[x]]

\* the state after construction from the configuration document config
InitState(config, limits, inputs, file, stream) ==
    /\ servers = loadServersFromConfig(config)
    /\ connections = [id \in DOMAIN config |-> NoConn]
    /\ transports = <<>>
    /\ calls = <<>>
    /\ now = StartTime
    /\ ret = NoRet
    /\ lim = Merge(limits, inputs)
    /\ settings = [exists |-> file.exists,
                   activatedMCPServers |-> file.activatedMCPServers,
                   writes |-> 0]
    /\ autos = <<>>
    /\ codec = [stream |-> stream, fed |-> 0, buf |-> <<>>, lines |-> <<>>]

\* the state after construction, with an empty activated list and no stream
InitFrom(config, limits, inputs) == InitState(config, limits, inputs, NoFile, <<>>)

\* POST /servers/:serverId/connect
ConnectToServer(serverId) ==
    LET r == connectToServer(Cur, serverId)
    IN  /\ Len(r.S.transports) <= lim.transports
        /\ Set(r.S)
        /\ ret' = Ret("connect", serverId, "-", r.out)
        /\ UNCHANGED <<now, lim, settings, autos, codec>>

\* POST /servers/:serverId/disconnect
DisconnectServer(serverId) ==
    /\ Set(disconnectServer(Cur, serverId))
    /\ ret' = Ret("disconnect", serverId, "-", "ok")
    /\ UNCHANGED <<now, lim, settings, autos, codec>>

\* POST /servers/:serverId/tools/:toolName/execute, executeToolCall of the chat flow
ExecuteTool(serverId, name) ==
    LET r == executeTool(Cur, serverId, name, now)
    IN  /\ Len(r.S.calls) <= lim.calls
        /\ Set(r.S)
        /\ ret' = Ret("executeTool", serverId, name, r.out)
        /\ UNCHANGED <<now, lim, settings, autos, codec>>

\* PUT /config
UpdateConfig(doc) ==
    LET loaded == loadServersFromConfig(Documents[doc])
    IN  /\ \A id \in DOMAIN loaded \cap DOMAIN servers : servers[id].obj < lim.updates
        /\ Set(updateConfig(Cur, Documents[doc]))
        /\ ret' = [Ret("updateConfig", "-", "-", "ok") EXCEPT !.doc = doc]
        /\ UNCHANGED <<now, lim, settings, autos, codec>>

\* POST /auto-start, MCPService.initialize
AutoStart ==
    /\ Len(autos) < lim.runs
    /\ autos' = Append(autos,
                       NewRun(SelectSeq(ServerOrder, LAMBDA id : id \in DOMAIN servers),
                              \A j \in DOMAIN autos : autos[j].pc = "done",
                              settings.activatedMCPServers))
    /\ ret' = NoRet
    /\ UNCHANGED <<servers, connections, transports, calls, now, lim, settings, codec>>

\* shouldAutoStart up to the return of loadSettings
AutoCheck(r) ==
    LET run == autos[r]
        server == servers[run.order[run.k]]
        l == loadSettings(settings)
    IN  /\ run.pc = "check"
        /\ IF server.disabled
           THEN /\ autos' = [autos EXCEPT ![r] = NextCheck(run)]
                /\ settings' = settings
           ELSE /\ autos' = [autos EXCEPT ![r] =
                                [run EXCEPT !.pc = "decide", !.seen = l.value,
                                            !.wrote = @ + l.F.writes - settings.writes]]
                /\ settings' = l.F
        /\ ret' = NoRet
        /\ UNCHANGED <<servers, connections, transports, calls, now, lim, codec>>

\* shouldAutoStart from the return of loadSettings, and serversToStart.push
AutoDecide(r) ==
    LET run == autos[r]
        server == servers[run.order[run.k]]
        d == shouldAutoStart(server, run.seen)
        F == IF d.rewrite THEN updateSettings(settings, d.updatedServers) ELSE settings
    IN  /\ run.pc = "decide"
        /\ settings' = F
        /\ autos' = [autos EXCEPT ![r] =
                        NextCheck([run EXCEPT
                                     !.serversToStart = IF d.start THEN Append(@, server.id)
                                                        ELSE @,
                                     !.wrote = @ + F.writes - settings.writes])]
        /\ ret' = NoRet
        /\ UNCHANGED <<servers, connections, transports, calls, now, lim, codec>>

\* the second loop of autoStartEnabledServers calls connectToServer
AutoConnect(r) ==
    LET run == autos[r]
        serverId == run.serversToStart[run.i]
        c == connectToServer(Cur, serverId)
        attempt == [id |-> serverId, at |-> now,
                    t |-> IF c.out = "pending" THEN Len(c.S.transports) ELSE NoConn,
                    out |-> c.out]
        run1 == [run EXCEPT !.tried = Append(@, attempt)]
    IN  /\ run.pc = "start"
        /\ Len(c.S.transports) <= lim.transports
        /\ Set(c.S)
        /\ autos' = [autos EXCEPT ![r] =
                        IF c.out = "pending"
                        THEN [run1 EXCEPT !.pc = "wait", !.t = attempt.t]
                        ELSE AfterConnect(run1, now)]
        /\ ret' = NoRet
        /\ UNCHANGED <<now, lim, settings, codec>>

\* the promise of the awaited connectToServer was resolved
AutoResume(r) ==
    LET run == autos[r]
    IN  /\ run.pc = "wait"
        /\ transports[run.t].result # "pending"
        /\ autos' = [autos EXCEPT ![r] = AfterConnect(run, now)]
        /\ ret' = NoRet
        /\ UNCHANGED <<servers, connections, transports, calls, now, lim, settings, codec>>

\* the timer of the delay between two starts fired
AutoDelay(r) ==
    LET run == autos[r]
    IN  /\ run.pc = "delay"
        /\ now >= run.until
        /\ autos' = [autos EXCEPT ![r] = [run EXCEPT !.pc = "start", !.i = @ + 1]]
        /\ ret' = NoRet
        /\ UNCHANGED <<servers, connections, transports, calls, now, lim, settings, codec>>

\* stdout emits the next k bytes of the stream as one chunk
FeedChunk(k) ==
    LET data == SubSeq(codec.stream, codec.fed + 1, codec.fed + k)
        c == feed([buf |-> codec.buf, lines |-> codec.lines], data)
    IN  /\ codec.fed + k <= Len(codec.stream)
        /\ codec' = [codec EXCEPT !.fed = @ + k, !.buf = c.buf, !.lines = c.lines]
        /\ ret' = NoRet
        /\ UNCHANGED <<servers, connections, transports, calls, now, lim, settings, autos>>

\* the child process was spawned
ChildSpawn(t) ==
    /\ transports[t].kind = "stdio" /\ transports[t].st = "starting"
    /\ LET S == SpawnHandler(Cur, t, now)
       IN  Len(S.calls) <= lim.calls /\ Set(S)
    /\ ret' = NoRet
    /\ UNCHANGED <<now, lim, settings, autos, codec>>

\* the child process could not be spawned
ChildError(t) ==
    /\ transports[t].kind = "stdio" /\ transports[t].st = "starting"
    /\ Set(ErrorHandler(Cur, t))
    /\ ret' = NoRet
    /\ UNCHANGED <<now, lim, settings, autos, codec>>

\* the child process ended (by itself or killed); after a spawn error an
\* exit event may or may not follow
ChildExit(t) ==
    /\ transports[t].kind = "stdio" /\ transports[t].st \in {"up", "failed"}
    /\ Set(ExitHandler(Cur, t))
    /\ ret' = NoRet
    /\ UNCHANGED <<now, lim, settings, autos, codec>>

\* the socket opened
WsOpen(t) ==
    /\ transports[t].kind = "ws" /\ transports[t].st = "starting"
    /\ Set(OpenHandler(Cur, t))
    /\ ret' = NoRet
    /\ UNCHANGED <<now, lim, settings, autos, codec>>

\* the socket failed, while connecting or when open
WsError(t) ==
    /\ transports[t].kind = "ws" /\ transports[t].st \in {"starting", "up"}
    /\ Set(ErrorHandler(Cur, t))
    /\ ret' = NoRet
    /\ UNCHANGED <<now, lim, settings, autos, codec>>

\* the socket closed (by the peer, by close() or after an error)
WsClose(t) ==
    /\ transports[t].kind = "ws" /\ transports[t].st \in {"up", "failed"}
    /\ Set(ExitHandler(Cur, t))
    /\ ret' = NoRet
    /\ UNCHANGED <<now, lim, settings, autos, codec>>

\* the ids of the requests written to transport t
SentIds(t) == {transports[t].sent[i].id : i \in 1..Len(transports[t].sent)}

RECURSIVE SumNout(_, _)
SumNout(trs, i) == IF i > Len(trs) THEN 0 ELSE trs[i].nout + SumNout(trs, i + 1)

\* the frames the providers wrote so far
FramesWritten == SumNout(transports, 1)

\* the provider behind transport t writes one frame
ProviderEmit(t, tok) ==
    /\ transports[t].st = "up"
    /\ FramesWritten < lim.frames
    /\ Len(transports[t].out) < 2 * lim.inflight
    /\ transports' = [transports EXCEPT ![t].out = @ \o <<tok, NL>>,
                                        ![t].nout = @ + 1]
    /\ ret' = NoRet
    /\ UNCHANGED <<servers, connections, calls, now, lim, settings, autos, codec>>

\* the first k tokens the provider wrote arrive as one chunk; a socket
\* delivers one whole message
DeliverData(t, k) ==
    /\ k \in 1..Len(transports[t].out)
    /\ IF transports[t].kind = "stdio"
       THEN transports[t].st \in {"up", "down"}
       ELSE /\ transports[t].st = "up"
            /\ transports[t].out[k].k = "nl"
            /\ \A j \in 1..(k - 1) : transports[t].out[j].k # "nl"
    /\ LET data == SubSeq(transports[t].out, 1, k)
           S0 == [Cur EXCEPT !.transports[t].out = SubSeq(@, k + 1, Len(@))]
           S == Deliver(S0, t, data, now)
       IN  Len(S.calls) <= lim.calls /\ Set(S)
    /\ ret' = NoRet
    /\ UNCHANGED <<now, lim, settings, autos, codec>>

\* the timer of call ci fires
Timeout(ci) ==
    /\ calls[ci].timer = "armed"
    /\ now >= calls[ci].start + timeoutMs
    /\ Set(TimeoutFired(Cur, ci))
    /\ ret' = NoRet
    /\ UNCHANGED <<now, lim, settings, autos, codec>>

\* time passes
Tick ==
    /\ now < StartTime + lim.ticks * ClockStep
    /\ now' = now + ClockStep
    /\ ret' = NoRet
    /\ UNCHANGED <<servers, connections, transports, calls, lim, settings, autos, codec>>

\* the frames the provider behind transport t may write: an answer to a request
\* it received and, in runs with noise, text that is not JSON or a frame
\* that answers no request
Tokens(t) ==
    {Resp(i, b) : i \in SentIds(t) \ {StrayId}, b \in lim.bodies}
        \cup (IF lim.noise THEN {Junk, Resp(StrayId, "tools")} ELSE {})

\* the public operations
ApiNext ==
    \/ \E serverId \in lim.ids : ConnectToServer(serverId)
    \/ \E serverId \in lim.ids : DisconnectServer(serverId)
    \/ \E serverId \in lim.ids, name \in lim.tools : ExecuteTool(serverId, name)

\* the lifecycle events of the child processes
ChildNext ==
    \/ \E t \in DOMAIN transports : ChildSpawn(t)
    \/ \E t \in DOMAIN transports : ChildError(t)
    \/ \E t \in DOMAIN transports : ChildExit(t)

\* the lifecycle events of the sockets
WsNext ==
    \/ \E t \in DOMAIN transports : WsOpen(t)
    \/ \E t \in DOMAIN transports : WsError(t)
    \/ \E t \in DOMAIN transports : WsClose(t)

\* the providers' answers and their delivery
FrameNext ==
    \/ \E t \in DOMAIN transports : \E tok \in Tokens(t) : ProviderEmit(t, tok)
    \/ \E t \in DOMAIN transports : \E k \in 1..Len(transports[t].out) : DeliverData(t, k)

\* the timers and the clock
TimeNext ==
    \/ \E ci \in DOMAIN calls : Timeout(ci)
    \/ Tick

(***************************************************************************)
(* Spec: the connection lifecycle of a local-process provider and a socket *)
(* provider; no provider answers and no time passes.                       *)
(***************************************************************************)
Init ==
    InitFrom(Select({"fs", "ws"}), Limits(MaxTransports, MaxCalls, 0, 0, 0),
             Inputs({"fs", "ws", UnknownId}, ToolNames, {}, FALSE))

Next == ApiNext \/ ChildNext \/ WsNext

Spec == Init /\ [][Next]_vars

(***************************************************************************)
(* SpecFs: a local-process provider (and a demo provider) with its         *)
(* initialize sequence, its answers, the timers and the clock.             *)
(***************************************************************************)
InitFs ==
    InitFrom(Select({"fs", "demo"}),
             Limits(FsTransports, FsCalls, FsFrames, FsInflight, FsTicks),
             Inputs({"fs", "demo"}, {"read_file"}, Bodies, FALSE))

NextFs == ApiNext \/ ChildNext \/ FrameNext \/ TimeNext

SpecFs == InitFs /\ [][NextFs]_vars

(***************************************************************************)
(* SpecWs: a socket provider with its answers, the timers and the clock.   *)
(***************************************************************************)
InitWs ==
    InitFrom(Select({"ws"}),
             Limits(WsTransports, WsCalls, WsFrames, WsInflight, WsTicks),
             Inputs({"ws"}, {"query"}, Bodies, FALSE))

NextWs == ApiNext \/ WsNext \/ FrameNext \/ TimeNext

SpecWs == InitWs /\ [][NextWs]_vars

(***************************************************************************)
(* SpecTime: both providers, the timers and the clock; no provider ever    *)
(* answers.                                                                *)
(***************************************************************************)
InitTime ==
    InitFrom(Select({"fs", "ws"}),
             Limits(TimeTransports, TimeCalls, 0, 0, TimeTicks),
             Inputs({"fs", "ws"}, {"fs_tool", "query"}, {}, FALSE))

NextTime == ApiNext \/ ChildNext \/ WsNext \/ TimeNext

SpecTime == InitTime /\ [][NextTime]_vars

(***************************************************************************)
(* Properties.                                                             *)
(***************************************************************************)
Status(id) == servers[id].status

\* a transport that exists and was not told to terminate: a socket from the
\* construction of the WebSocket, a child process from its spawn event
Open(tr) ==
    /\ ~tr.killed
    /\ \/ tr.st = "up"
       \/ tr.kind = "ws" /\ tr.st = "starting"

OpenTransports(id) == {t \in DOMAIN transports : transports[t].srv = id /\ Open(transports[t])}

\* C1: under any interleaving of connect calls at most one transport (child
\* process or socket) exists per provider id at any time.
C1_AtMostOneTransport ==
    \A id \in DOMAIN servers : Cardinality(OpenTransports(id)) <= 1

\* C2: every call of the session that is pending when disconnect(providerId)
\* runs is rejected as part of the disconnect.
C2_DisconnectRejectsPending ==
    [][ret'.op = "disconnect" =>
         \A ci \in DOMAIN calls :
            (calls[ci].srv = ret'.srv /\ calls[ci].state = "pending")
                => calls'[ci].state = "rejected"]_vars

\* no other call sent over the same transport carries the request id of call ci
UniqueId(ci) ==
    \A cj \in DOMAIN calls \ {ci} :
        calls[cj].conn = calls[ci].conn => calls[cj].id # calls[ci].id

\* C3: a call with an id of its own, whose response arrived while it was
\* outstanding, is resolved with that response, whatever arrived before it; no
\* call is resolved with a response carrying another id.
C3_OwnResponse ==
    \A ci \in DOMAIN calls :
        /\ (UniqueId(ci) /\ calls[ci].got)
              => (calls[ci].state = "resolved" /\ calls[ci].resp.id = calls[ci].id)
        /\ calls[ci].state = "resolved" => calls[ci].resp.id = calls[ci].id

\* C4: a call is rejected with the timeout error by its timer, not before its
\* deadline; the timer removes the call's response handler and leaves every
\* session's status as it was.
C4_Timeout ==
    /\ [](\A ci \in DOMAIN calls :
             calls[ci].err = "timeout"
                => /\ calls[ci].state = "rejected"
                   /\ ~calls[ci].listening
                   /\ now >= calls[ci].start + timeoutMs)
    /\ [][\A ci \in DOMAIN calls :
             (calls[ci].state = "pending" /\ calls[ci].timer = "armed"
                 /\ calls'[ci].timer = "fired")
                => /\ calls'[ci].state = "rejected"
                   /\ calls'[ci].err = "timeout"
                   /\ ~calls'[ci].listening
                   /\ servers' = servers
                   /\ connections' = connections]_vars

\* a call timed out on a session that is still connected
C4_Witness ==
    \E ci \in DOMAIN calls :
        /\ calls[ci].err = "timeout"
        /\ Status(calls[ci].srv) = "connected"
        /\ connections[calls[ci].srv] = calls[ci].conn

ExecuteToolErrors == {"throw_not_connected", "throw_tool_not_found", "throw_no_connection"}

\* C5: execute_tool with an unknown provider id, with a session that is not
\* connected or with a tool that is not in the session's tool list fails with
\* an error, writes nothing to any transport and registers no call.
C5_ExecuteToolRefuses ==
    [][(/\ ret'.op = "executeTool"
        /\ \/ ret'.srv \notin DOMAIN servers
           \/ Status(ret'.srv) # "connected"
           \/ ret'.tool \notin Range(servers[ret'.srv].tools))
          => /\ ret'.out \in ExecuteToolErrors
             /\ transports' = transports
             /\ calls' = calls]_vars

\* execute_tool was refused on a connected session for a tool it does not list
C5_Witness ==
    /\ ret.op = "executeTool"
    /\ ret.srv \in DOMAIN servers
    /\ Status(ret.srv) = "connected"
    /\ connections[ret.srv] # NoConn
    /\ ret.tool \notin Range(servers[ret.srv].tools)
    /\ ret.out = "throw_tool_not_found"

\* C6: when the provider answers a tools/call request with an error object,
\* execute_tool throws; it does not return normally.
C6_ErrorSurfaced ==
    \A ci \in DOMAIN calls :
        (/\ calls[ci].method = "tools/call"
         /\ calls[ci].state = "resolved"
         /\ calls[ci].resp.body = "error")
            => calls[ci].outcome = "threw"

\* C7: list_tools() returns exactly the tools of the sessions whose status is
\* connected: each tool of a connected session, and no tool of a session that
\* is disconnected or in error, discovered tools included.
C7_ListToolsOnlyConnected ==
    LET listed == Range(getAvailableTools(Cur))
    IN  /\ \A id \in DOMAIN servers : \A i \in DOMAIN servers[id].tools :
              ([server |-> id, name |-> servers[id].tools[i]] \in listed)
                  <=> (Status(id) = "connected")
        /\ \A e \in listed : e.name \in Range(servers[e.server].tools)

\* the provider that discovered its tools is not connected, another one is
C7_Witness ==
    /\ Status("fs") # "connected"
    /\ servers["fs"].tools = ProviderTools("fs")
    /\ Status("demo") = "connected"

\* C8: connect() on a local-process provider has returned success when the
\* process was spawned, while the initialize request is still unanswered; the
\* failure of the initialize sequence changes neither that result nor any
\* session's status.
C8_ConnectBeforeDiscovery ==
    /\ [](\A t \in DOMAIN transports :
             transports[t].init # "none" => transports[t].result = "true")
    /\ [][\A t \in DOMAIN transports :
             /\ (transports[t].st = "starting" /\ transports'[t].st = "up")
                   => /\ transports'[t].result = "true"
                      /\ transports'[t].init = "running"
                      /\ \E ci \in DOMAIN calls' :
                            /\ calls'[ci].run = t
                            /\ calls'[ci].method = "initialize"
                            /\ calls'[ci].state = "pending"
             /\ (transports[t].init = "running" /\ transports'[t].init = "failed")
                   => /\ transports'[t].result = "true"
                      /\ \A id \in DOMAIN servers :
                            servers'[id].status = servers[id].status]_vars

\* the initialize sequence failed after connect() returned success, and the
\* session is connected
C8_Witness ==
    \E t \in DOMAIN transports :
        /\ transports[t].init = "failed"
        /\ transports[t].result = "true"
        /\ Status(transports[t].srv) = "connected"
        /\ connections[transports[t].srv] = t

C10_DisconnectTerminates ==
    [][(ret'.op = "disconnect" /\ ret'.srv \in DOMAIN servers)
          => /\ servers'[ret'.srv].status = "disconnected"
             /\ \A t \in DOMAIN transports' :
                   transports'[t].srv = ret'.srv => ~Open(transports'[t])]_vars

\* C11: connect(providerId) and disconnect(providerId) with an id that is not
\* in the provider table each report an error to the caller, and change no
\* session's status and no transport.
C11_UnknownIdReported ==
    [][(ret'.op \in {"connect", "disconnect"} /\ ret'.srv \notin DOMAIN servers)
          => /\ ret'.out = "throw"
             /\ servers' = servers
             /\ connections' = connections
             /\ transports' = transports]_vars

(***************************************************************************)
(* SpecCfg: connects of every transport kind, and updates of the           *)
(* configuration while providers are connected.                            *)
(***************************************************************************)
InitCfg ==
    InitFrom(Select({"fs", "sse", "bad", "http"}),
             Merge(Limits(CfgTransports, CfgCalls, 0, 0, 0),
                   [updates |-> CfgUpdates, docs |-> DOMAIN Documents]),
             Inputs({"fs", "sse", "bad", "http"}, {"fs_tool"}, {}, FALSE))

\* the route that replaces the configuration
ConfigNext == \E doc \in lim.docs : UpdateConfig(doc)

NextCfg == ApiNext \/ ChildNext \/ ConfigNext

SpecCfg == InitCfg /\ [][NextCfg]_vars

(***************************************************************************)
(* Properties of connects that fail, of transports that end and of         *)
(* configuration updates.                                                  *)
(***************************************************************************)
\* C12: whenever connect(providerId) on a known provider returns failure, at
\* once or when the error event of its transport fires, the session's status
\* is error when the call returns.
C12_FailureMeansError ==
    [][/\ (ret'.op = "connect" /\ ret'.srv \in DOMAIN servers /\ ret'.out = "false")
             => servers'[ret'.srv].status = "error"
       /\ \A t \in DOMAIN transports :
             (transports[t].result = "pending" /\ transports'[t].result = "false")
                => servers'[transports[t].srv].status = "error"]_vars

\* the state after the step
After == [servers |-> servers', connections |-> connections',
          transports |-> transports', calls |-> calls']

\* C13: when the child process of a connected provider exits, or its socket
\* closes, the status becomes disconnected and the transport handle is
\* removed: execute_tool on the provider fails and its tools are absent from
\* list_tools().
C13_ExitDisconnects ==
    [][\A t \in DOMAIN transports :
          (/\ transports[t].st = "up"
           /\ transports'[t].st = "down"
           /\ Status(transports[t].srv) = "connected")
             => LET id == transports[t].srv
                IN  /\ servers'[id].status = "disconnected"
                    /\ connections'[id] = NoConn
                    /\ \A name \in lim.tools :
                          executeTool(After, id, name, now).out \in ExecuteToolErrors
                    /\ \A e \in Range(getAvailableTools(After)) : e.server # id]_vars

\* the providers the document of the last update_configuration defines
Defined == DOMAIN Documents[ret'.doc]

\* C17: after update_configuration(newDocument) a provider that was connected
\* and is still defined in the new document keeps its live session: its status
\* is still connected, its transport handle is the same and execute_tool on it
\* is accepted as before; the update terminates no transport.
C17_UpdateKeepsSessions ==
    [][ret'.op = "updateConfig" =>
          /\ transports' = transports
          /\ \A id \in DOMAIN servers \cap Defined :
                Status(id) = "connected"
                   => /\ servers'[id].status = "connected"
                      /\ connections'[id] = connections[id]
                      /\ \A name \in lim.tools :
                            executeTool(Cur, id, name, now).out = "pending"
                               => executeTool(After, id, name, now).out = "pending"]_vars

\* C18: after a successful update_configuration(newDocument) list_servers()
\* returns exactly the providers defined in newDocument.
C18_TableIsNewDocument ==
    [][ret'.op = "updateConfig" =>
          {s.id : s \in getAvailableServers(After)} = Defined]_vars

\* the step is an operation on provider p, an event of one of its transports
\* or the timer or response of one of its calls
Acts(p) ==
    \/ ret'.srv = p
    \/ /\ ret' = NoRet
       /\ \/ \E t \in DOMAIN transports :
                transports[t].srv = p /\ transports'[t] # transports[t]
          \/ \E ci \in DOMAIN calls :
                calls[ci].srv = p /\ calls'[ci] # calls[ci]

\* the providers whose status, tool list or transport handle the step changes
Changed ==
    {q \in DOMAIN servers : servers'[q] # servers[q] \/ connections'[q] # connections[q]}

\* C20: a connect, disconnect, transport exit or error, call timeout or
\* discovery failure of one provider never changes the status, the tool list
\* or the transport handle of any other provider: a step changes those of at
\* most one provider, the one it acts on.
C20_OtherProvidersUntouched ==
    [][/\ Cardinality(Changed) <= 1
       /\ \A p \in DOMAIN servers : Acts(p) => Changed \subseteq {p}]_vars

\* the discovery of one provider failed, or its transport ended, while the
\* other provider is connected and holds its transport
C20_Witness ==
    /\ Status("ws") = "connected"
    /\ connections["ws"] # NoConn
    /\ \E t \in DOMAIN transports :
          /\ transports[t].srv = "fs"
          /\ transports[t].init = "failed"
          /\ transports[t].st = "down"

(***************************************************************************)
(* SpecCodec: one stdio response handler and every stream of at most       *)
(* MaxBytes bytes, cut into chunks in every way.                           *)
(***************************************************************************)
CodecBytes == {NL, SP, Junk, Lead, Cont}

InitCodec ==
    \E stream \in UNION {[1..m -> CodecBytes] : m \in 0..MaxBytes} :
        InitState(Select({"fs"}), Limits(0, 0, 0, 0, 0), Inputs({}, {}, {}, FALSE),
                  NoFile, stream)

NextCodec == \E k \in 1..Len(codec.stream) : FeedChunk(k)

SpecCodec == InitCodec /\ [][NextCodec]_vars

\* C19: for every stream of newline-delimited frames and every way of cutting
\* its bytes into chunks, the handler fed with the chunks one after another
\* has recovered the lines, and keeps the trailing part, that the handler fed
\* with the same bytes at once has.
C19_ChunkInvariance ==
    feed([buf |-> <<>>, lines |-> <<>>], SubSeq(codec.stream, 1, codec.fed))
        = [buf |-> codec.buf, lines |-> codec.lines]

(***************************************************************************)
(* SpecAuto: runs of the auto-start over a local-process provider, a       *)
(* provider with the same display name, a disabled provider and a provider *)
(* that cannot connect, from each of the settings files AutoFiles.         *)
(***************************************************************************)
AutoFiles ==
    {NoFile, File(<<"FS">>), File(<<"FS", "SSE">>), File(<<"fs", "off">>),
     File(<<"Off", "sse", "twin">>)}

InitAuto ==
    \E file \in AutoFiles :
        InitState(Select({"fs", "twin", "off", "sse"}),
                  Merge(Limits(AutoTransports, AutoCalls, 0, 0, AutoTicks), [runs |-> AutoRuns]),
                  Inputs({}, {}, {}, FALSE), file, <<>>)

\* the steps of the auto-start
AutoNext ==
    \/ AutoStart
    \/ \E r \in DOMAIN autos : AutoCheck(r)
    \/ \E r \in DOMAIN autos : AutoDecide(r)
    \/ \E r \in DOMAIN autos : AutoConnect(r)
    \/ \E r \in DOMAIN autos : AutoResume(r)
    \/ \E r \in DOMAIN autos : AutoDelay(r)

NextAuto == AutoNext \/ ChildNext \/ TimeNext

SpecAuto == InitAuto /\ [][NextAuto]_vars

(***************************************************************************)
(* C14: a run of the auto-start selects the provider it examines exactly   *)
(* when the provider is not disabled and its id or its display name is in  *)
(* the activated list read from the settings for it, the list it decides   *)
(* on is the persisted one, and the connects of a run are those of the     *)
(* providers it selected, none of them disabled.                           *)
(***************************************************************************)
\* the provider the run is examining
Examined(run) == servers[run.order[run.k]]

\* the run put the provider it examined on serversToStart in this step
Selected(r) ==
    autos'[r].serversToStart = Append(autos[r].serversToStart, Examined(autos[r]).id)

\* the ids of the providers whose connect the run started
TriedIds(run) == [j \in DOMAIN run.tried |-> run.tried[j].id]

C14_Decision ==
    \A r \in DOMAIN autos :
        /\ (autos[r].pc = "check" /\ autos'[r].pc = "decide")
               => /\ ~Examined(autos[r]).disabled
                  /\ autos'[r].seen = settings'.activatedMCPServers
        /\ (autos[r].pc = "check" /\ autos'[r] # autos[r] /\ autos'[r].pc # "decide")
               => /\ Examined(autos[r]).disabled
                  /\ autos'[r].serversToStart = autos[r].serversToStart
        /\ (autos[r].pc = "decide" /\ autos'[r] # autos[r])
               => IF Includes(autos[r].seen, Examined(autos[r]).id)
                        \/ Includes(autos[r].seen, Examined(autos[r]).name)
                  THEN Selected(r)
                  ELSE autos'[r].serversToStart = autos[r].serversToStart

C14_OnlySelected ==
    \A r \in DOMAIN autos :
        /\ Len(autos[r].tried) <= Len(autos[r].serversToStart)
        /\ TriedIds(autos[r]) = SubSeq(autos[r].serversToStart, 1, Len(autos[r].tried))
        /\ \A j \in DOMAIN autos[r].serversToStart :
               ~servers[autos[r].serversToStart[j]].disabled
        /\ autos[r].pc = "done" => Len(autos[r].tried) = Len(autos[r].serversToStart)

C14_AutoStartSelection == [][C14_Decision]_vars /\ []C14_OnlySelected

\* a finished run connected fs and left out the disabled provider whose id is
\* in the activated list
C14_Witness ==
    \E r \in DOMAIN autos :
        /\ autos[r].pc = "done"
        /\ TriedIds(autos[r]) = <<"fs">>
        /\ servers["off"].disabled
        /\ Includes(settings.activatedMCPServers, "off")

(***************************************************************************)
(* C15: when the provider a run examines is in the activated list by its   *)
(* display name and not by its id, the run selects it and writes the list  *)
(* with the id in place of the name; a run that follows finished runs, one *)
(* after the other, writes nothing to the settings.                        *)
(***************************************************************************)
C15_Rewrite ==
    \A r \in DOMAIN autos :
        (/\ autos[r].pc = "decide" /\ autos'[r] # autos[r]
         /\ Includes(autos[r].seen, Examined(autos[r]).name)
         /\ ~Includes(autos[r].seen, Examined(autos[r]).id))
            => /\ Selected(r)
               /\ settings'.exists
               /\ settings'.writes = settings.writes + 1
               /\ Includes(settings'.activatedMCPServers, Examined(autos[r]).id)
               /\ ~Includes(settings'.activatedMCPServers, Examined(autos[r]).name)

C15_OneTime ==
    \A r \in DOMAIN autos :
        (r > 1 /\ \A j \in 1..r : autos[j].alone) => autos[r].wrote = 0

C15_NameMatchRewritten == [][C15_Rewrite]_vars /\ []C15_OneTime

\* the first run found fs by its name, rewrote the list and connected fs; the
\* run after it connected fs again and wrote nothing
C15_Witness ==
    /\ Len(autos) = 2
    /\ autos[1].pc = "done" /\ autos[1].wrote = 1 /\ TriedIds(autos[1]) = <<"fs">>
    /\ autos[2].pc = "done" /\ autos[2].alone /\ autos[2].wrote = 0
    /\ TriedIds(autos[2]) = <<"fs">>
    /\ settings.activatedMCPServers = <<"fs">>

(***************************************************************************)
(* C16: a run starts the connect of its next selected provider only after  *)
(* the connect of the previous one returned and the delay passed since     *)
(* then, whatever that connect returned; and a finished run started the    *)
(* connect of every provider it selected, in order.                        *)
(***************************************************************************)
\* the run started a connect in this step
StartsConnect(r) == Len(autos'[r].tried) = Len(autos[r].tried) + 1

\* the last connect the run started has returned
LastReturned(run) ==
    LET a == run.tried[Len(run.tried)]
    IN  a.t # NoConn => transports[a.t].result # "pending"

C16_OneAtATime ==
    \A r \in DOMAIN autos :
        /\ Len(autos'[r].tried) \in {Len(autos[r].tried), Len(autos[r].tried) + 1}
        /\ (StartsConnect(r) /\ autos[r].tried # <<>>)
               => /\ LastReturned(autos[r])
                  /\ autos[r].back >= autos[r].tried[Len(autos[r].tried)].at
                  /\ now >= autos[r].back + autoStartDelayMs

C16_AllTried ==
    \A r \in DOMAIN autos :
        autos[r].pc = "done" => TriedIds(autos[r]) = autos[r].serversToStart

Outcome(run, j) ==
    IF run.tried[j].t = NoConn THEN run.tried[j].out
    ELSE transports[run.tried[j].t].result

Settled(c) == c.state # "pending"

C21_OneOutcome ==
    \A ci \in DOMAIN calls :
        /\ calls[ci].state \in {"pending", "resolved", "rejected"}
        /\ calls[ci].state = "pending" => (calls[ci].resp = NoTok /\ calls[ci].err = "-")
        /\ calls[ci].state = "resolved"
              => (calls[ci].resp.id = calls[ci].id /\ calls[ci].err = "-")
        /\ calls[ci].state = "rejected"
              => (calls[ci].resp = NoTok /\ calls[ci].err = "timeout")
        /\ calls[ci].timer = "fired" => Settled(calls[ci])

C21_Once ==
    \A ci \in DOMAIN calls :
        /\ Settled(calls[ci])
              => /\ calls'[ci].state = calls[ci].state
                 /\ calls'[ci].resp = calls[ci].resp
                 /\ calls'[ci].err = calls[ci].err
                 /\ calls'[ci].outcome = calls[ci].outcome
                 /\ calls'[ci].value = calls[ci].value
        /\ (calls[ci].state = "resolved" /\ calls[ci].timer = "armed"
               /\ calls'[ci].timer = "fired")
              => /\ servers' = servers /\ connections' = connections
                 /\ transports' = transports
                 /\ calls' = [calls EXCEPT ![ci].timer = "fired"]

C21_SettledOnce == []C21_OneOutcome /\ [][C21_Once]_vars

\* the timer of a resolved call fired, and a response arrived for a call
\* that had timed out
C21_Witness ==
    /\ \E ci \in DOMAIN calls : calls[ci].state = "resolved" /\ calls[ci].timer = "fired"
    /\ \E ci \in DOMAIN calls : calls[ci].state = "rejected" /\ calls[ci].late

\* C22: no two pending calls sent over one transport carry the same request
\* id, whenever they were issued.
C22_PendingIdsDistinct ==
    \A ci \in DOMAIN calls : \A cj \in DOMAIN calls :
        (/\ ci # cj
         /\ calls[ci].conn = calls[cj].conn
         /\ calls[ci].state = "pending"
         /\ calls[cj].state = "pending")
            => calls[ci].id # calls[cj].id

(***************************************************************************)
(* C23: the requests of one initialize sequence are sent in order, each    *)
(* after the response to the one before it: initialize first, then the     *)
(* initialized notification followed at once by tools/list, then           *)
(* resources/list; the notification registers no call.                     *)
(***************************************************************************)
\* the calls the initialize sequence of transport t made before call ci
Earlier(t, ci, method) ==
    {cj \in 1..(ci - 1) : calls[cj].run = t /\ calls[cj].method = method}

InitMethods == {"initialize", "tools/list", "resources/list"}

RECURSIVE Requests(_, _)
\* the number of requests, notifications left out, written to the transports
Requests(trs, i) ==
    IF i > Len(trs) THEN 0
    ELSE Cardinality({k \in DOMAIN trs[i].sent :
                         trs[i].sent[k].method # "notifications/initialized"})
         + Requests(trs, i + 1)

C23_InitializeInOrder ==
    /\ Len(calls) = Requests(transports, 1)
    /\ \A ci \in DOMAIN calls :
          LET c == calls[ci]
          IN  /\ c.method \in InitMethods \cup {"tools/call"}
              /\ c.method \in InitMethods <=> c.run # 0
              /\ c.method = "initialize"
                    => /\ c.id = 1
                       /\ \A m \in InitMethods : Earlier(c.run, ci, m) = {}
              /\ c.method = "tools/list"
                    => /\ c.id = 2
                       /\ \E cj \in Earlier(c.run, ci, "initialize") :
                             calls[cj].state = "resolved"
                       /\ Earlier(c.run, ci, "tools/list") = {}
                       /\ Earlier(c.run, ci, "resources/list") = {}
                       /\ \E k \in DOMAIN transports[c.conn].sent :
                             /\ k > 1
                             /\ transports[c.conn].sent[k] = [method |-> "tools/list", id |-> 2]
                             /\ transports[c.conn].sent[k - 1].method
                                    = "notifications/initialized"
              /\ c.method = "resources/list"
                    => /\ c.id = 3
                       /\ \E cj \in Earlier(c.run, ci, "tools/list") :
                             calls[cj].state = "resolved"
                       /\ Earlier(c.run, ci, "resources/list") = {}

\* an initialize sequence sent all its requests, and its provider answered
\* the first two
C23_Witness ==
    \E ci \in DOMAIN calls :
        /\ calls[ci].method = "resources/list"
        /\ Len(transports[calls[ci].conn].sent) = 4

\* C24: in the step in which a transport, child process or socket, gives its
\* ready signal and the session becomes connected, the initialize sequence of
\* that transport is started: its initialize request is written and pending.
C24_ReadyStartsInitialize ==
    [][\A t \in DOMAIN transports :
          (transports[t].st = "starting" /\ transports'[t].st = "up")
             => /\ transports'[t].init = "running"
                /\ [method |-> "initialize", id |-> 1] \in Range(transports'[t].sent)
                /\ \E ci \in DOMAIN calls' :
                      calls'[ci].run = t /\ calls'[ci].method = "initialize"]_vars

(***************************************************************************)
(* C25: when a tools/list request is answered with a result, the tool list *)
(* of the session is the list of the response and nothing else; when it is *)
(* answered with an error or times out, the tool list stays as it was; in  *)
(* each case every status and the result of every connect call stay as     *)
(* they were.                                                               *)
(***************************************************************************)
\* the tools/list call ci is settled in this step
ToolsListSettles(ci) ==
    /\ calls[ci].method = "tools/list"
    /\ calls[ci].state = "pending"
    /\ calls'[ci].state # "pending"

C25_Discovery ==
    \A ci \in DOMAIN calls :
        ToolsListSettles(ci)
           => /\ IF calls'[ci].state = "resolved" /\ calls'[ci].resp.body = "tools"
                 THEN servers'[calls[ci].srv].tools = ProviderTools(calls[ci].srv)
                 ELSE servers'[calls[ci].srv].tools = servers[calls[ci].srv].tools
              /\ \A id \in DOMAIN servers : servers'[id].status = servers[id].status
              /\ connections' = connections
              /\ \A t \in DOMAIN transports :
                    transports'[t].result = transports[t].result

C25_ToolsReplaced == [][C25_Discovery]_vars

\* the placeholder tool of fs was replaced by the tool its provider listed
C25_Witness ==
    /\ \E ci \in DOMAIN calls :
          /\ calls[ci].method = "tools/list"
          /\ calls[ci].state = "resolved"
          /\ calls[ci].resp.body = "tools"
    /\ servers["fs"].tools = ProviderTools("fs")
    /\ PlaceholderTool("fs") \notin Range(servers["fs"].tools)
    /\ Status("fs") = "connected"

\* C26: a call whose handler was registered when a frame with its id arrived
\* is resolved with that frame, whatever frames arrived before it.
C26_DroppedFramesHarmless ==
    \A ci \in DOMAIN calls :
        calls[ci].got => (calls[ci].state = "resolved" /\ calls[ci].resp.id = calls[ci].id)

\* C27: the status of a provider is connected exactly when the connection
\* table holds a transport for it.
C27_ConnectedIffHandle ==
    \A id \in DOMAIN servers :
        Status(id) = "connected" <=> connections[id] # NoConn

\* C28: the exit, close or error of a transport that is not the one the
\* connection table holds for its provider, while the table holds another one,
\* leaves the status of the provider and its entry in the table as they were.
C28_StaleEventIgnored ==
    [][\A t \in DOMAIN transports :
          (/\ transports[t].st # transports'[t].st
           /\ transports'[t].st \in {"down", "failed"}
           /\ connections[transports[t].srv] # NoConn
           /\ connections[transports[t].srv] # t)
             => /\ servers'[transports[t].srv].status = Status(transports[t].srv)
                /\ connections'[transports[t].srv] = connections[transports[t].srv]]_vars

(***************************************************************************)
(* SpecAlias: runs of the auto-start over fs and a provider examined       *)
(* before it whose display name is "fs".                                   *)
(***************************************************************************)
AliasFiles == {File(<<"fs">>), File(<<"fs", "alias">>), File(<<"alias">>), File(<<"FS">>)}

InitAlias ==
    \E file \in AliasFiles :
        InitState(Select({"alias", "fs"}),
                  Merge(Limits(AliasTransports, AliasCalls, 0, 0, AliasTicks),
                        [runs |-> AliasRuns]),
                  Inputs({}, {}, {}, FALSE), file, <<>>)

SpecAlias == InitAlias /\ [][NextAuto]_vars

\* C29: a finished run of the auto-start started the connect of every
\* provider that is not disabled and whose id was in the activated list
\* stored when the run began.
C29_ActivatedByIdStarted ==
    \A r \in DOMAIN autos :
        autos[r].pc = "done"
           => \A id \in DOMAIN servers :
                 (~servers[id].disabled /\ Includes(autos[r].began, id))
                    => Includes(TriedIds(autos[r]), id)

(***************************************************************************)
(* C30: every tool getAvailableTools returns, and every tool executeTool   *)
(* sends to a provider, is a tool the configuration document declares for  *)
(* the provider or a tool the provider listed in a tools/list response.    *)
(***************************************************************************)
\* the tools the document declares for provider id
Declared(id) == Range(ConfigDocument[id].tools)

\* the tools provider id returned in a tools/list response
Discovered(id) ==
    IF \E ci \in DOMAIN calls :
          /\ calls[ci].srv = id /\ calls[ci].method = "tools/list"
          /\ calls[ci].state = "resolved" /\ calls[ci].resp.body = "tools"
    THEN Range(ProviderTools(id)) ELSE {}

C30_OnlyNamedTools ==
    /\ \A e \in Range(getAvailableTools(Cur)) :
          e.name \in Declared(e.server) \cup Discovered(e.server)
    /\ (ret.op = "executeTool" /\ ret.out = "pending")
          => ret.tool \in Declared(ret.srv) \cup Discovered(ret.srv)

(***************************************************************************)
(* SpecReload: a local-process provider with its initialize sequence and   *)
(* its answers, and updates of the configuration with a document that      *)
(* still defines it.                                                       *)
(***************************************************************************)
InitReload ==
    InitFrom(Select({"fs"}),
             Merge(Limits(ReloadTransports, ReloadCalls, ReloadFrames, ReloadInflight, 0),
                   [updates |-> ReloadUpdates, docs |-> {"fsonly"}]),
             Inputs({"fs"}, {"read_file", "fs_tool"}, Bodies, FALSE))

NextReload == ApiNext \/ ChildNext \/ FrameNext \/ ConfigNext

SpecReload == InitReload /\ [][NextReload]_vars

====
